---- MODULE Spec2Model ----
(***************************************************************************)
(* Model of the trace-generation repository: the Translation Engine        *)
(* (translation.py), the Record Store operations and the inline pipeline   *)
(* (traceWithThink.py) and the batch pipeline (translate_pipeline.py).     *)
(*                                                                         *)
(* Text is a sequence of tokens (a token is a character class or a fixed   *)
(* phrase of the source), so that strip(), startswith(), concatenation and *)
(* equality are computed as Python computes them.  A nullable column is a  *)
(* sequence of length 0 (NULL) or 1 (the value).                           *)
(***************************************************************************)
EXTENDS Integers, Sequences, FiniteSets, TLC

\* ------------------------------------------------------------------ bounds
\* Largest MAX_RETRIES the engine specification is explored with.
MaxRetriesBound == 3
\* Largest number of rows the table holds in the pipeline specification.
MaxRecords == 2

\* ------------------------------------------------------- program constants
MAX_RETRIES == 3
RETRY_DELAY == 2
NUM_ENTRIES == 2

VARIABLES
    max_retries,   \* the MAX_RETRIES the translation module was loaded with
    t_pc,          \* translate_text_to_hindi: "idle" | "call" | "sleep" | "return" | "raised"
    t_trace,       \* trace_text of translate_reasoning_trace (NULL for a direct call)
    t_text,        \* text parameter of translate_text_to_hindi
    attempt,       \* loop variable of the retry loop (0-based)
    t_calls,       \* number of ollama.generate calls made by this translate call
    t_waits,       \* number of time.sleep(RETRY_DELAY) made by this translate call
    t_slept,       \* seconds slept by this translate call
    t_hist,        \* what the client did on each call of this translate call
    t_ret,         \* the returned string (NULL until the call returns)
    t_exit,        \* which return statement ended the call
    db,            \* table leetcode_reasoning, rows in id order
    clock,         \* source of CURRENT_TIMESTAMP / datetime.now()
    pc,            \* position of the running script
    entries,       \* main: the entries read from the JSONL file
    m_i,           \* main: index of the entry being processed (1-based)
    m_trace,       \* main: trace_en_with_think of the current entry
    work,          \* untranslated_traces of the running loop
    w_i,           \* index into work (1-based)
    successful_translations,
    failed_translations,
    upd_log,       \* the calls of update_translation_in_database made in this run
    eng_log,       \* per work item handled in this run: [id, exit, ret, calls] of the engine
    s_call,        \* the last call of a store operation made on its own, with its outcome
    s_prev         \* the call of a store operation made before that one

engineVars == <<t_pc, t_trace, t_text, attempt, t_calls, t_waits, t_slept, t_hist, t_ret, t_exit>>
storeVars  == <<db, clock>>
runVars    == <<pc, entries, m_i, m_trace, work, w_i, successful_translations,
                failed_translations, upd_log, eng_log>>
vars       == <<max_retries, engineVars, storeVars, runVars, s_call, s_prev>>

\* ------------------------------------------------------------------- text
NULL == <<>>
Some(v) == <<v>>

WS == {" ", "\n"}

RECURSIVE LStrip(_)
LStrip(s) == IF s # <<>> /\ Head(s) \in WS THEN LStrip(Tail(s)) ELSE s

RECURSIVE RStrip(_)
RStrip(s) == IF s # <<>> /\ s[Len(s)] \in WS THEN RStrip(SubSeq(s, 1, Len(s) - 1)) ELSE s

\* str.strip()
Strip(s) == RStrip(LStrip(s))

\* str.startswith(p)
StartsWith(s, p) == Len(s) >= Len(p) /\ SubSeq(s, 1, Len(p)) = p

\* translation_prompt: the f-string sent to the model
translation_prompt(text) ==
    <<"Translate the following English text to Hindi. Maintain the technical terminology and logical flow. Provide only the Hindi translation without any additional text or explanations.",
      "\n", "\n", "English text:", "\n">>
    \o text \o <<"\n", "\n", "Hindi translation:">>

\* contextual_prompt: what translate_reasoning_trace hands to translate_text_to_hindi
contextual_prompt(trace_text) ==
    <<"The following is a reasoning trace for a coding problem. Please translate it accurately to Hindi while maintaining the technical terminology and logical flow. Make sure not to use tough hindi words. Instead use simple hindi and use english words wherever technical terms are used.",
      "\n", "\n">> \o trace_text

\* The three strings the engine returns when it gives up.
ExhaustedMessage ==
    <<"Translation error", " after ", ToString(max_retries), " attempts", ":", " ",
      "Failed to get valid translation">>

ExceptionMessage(e) ==
    <<"Translation error", " after ", ToString(max_retries), " attempts", ":", " ">> \o e

MaxRetriesExceeded == <<"Translation failed", ":", " ", "Maximum retries exceeded">>

\* ------------------------------------------------- generation service client
\* What one ollama.generate call does:
\*   raise  - the call raises Exception(err)
\*   none   - it returns a response that is falsy or has no 'response' key
\*   nonstr - it returns a response whose 'response' is not a string (None)
\*   text   - it returns {'response': text}
Raise(e)   == [kind |-> "raise",  text |-> <<>>, err |-> e]
Malformed  == [kind |-> "none",   text |-> <<>>, err |-> <<>>]
NonString  == [kind |-> "nonstr", text |-> <<>>, err |-> <<>>]
Text(s)    == [kind |-> "text",   text |-> s,    err |-> <<>>]

\* str(e) of the AttributeError raised by None.strip()
NoStripError == <<"'NoneType' object has no attribute 'strip'">>

ConnectionRefused == <<"connection refused">>
Hindi == <<"h", " ", "h">>

\* ----------------------------------------------------- translation engine
\* Mutant of line 93: the emptiness test is dropped.
IsValidTranslationAny(translated_text, text) == TRUE

IsValidTranslationNoLength(translated_text, text) == translated_text # text

\* Line 93: the validation of a stripped response.
IsValidTranslation(translated_text, text) ==
    Len(translated_text) > 0 /\ translated_text # text

\* Mutant of lines 116 and 133: the loop sleeps after every failed attempt.
RetryAllowedAlways(a) == TRUE

\* Mutant of lines 116 and 133: the loop sleeps after the last attempt too.
RetryAllowedLate(a) == a < max_retries

\* Mutant of lines 116 and 133: the loop gives up one attempt early.
RetryAllowedEarly(a) == a < max_retries - 2

\* Lines 116 and 133: whether the loop sleeps and goes round again.
RetryAllowed(a) == a < max_retries - 1

\* Mutant of line 90: the response is not stripped.
UnstrippedResponse(r) == r.text

\* Line 90: translated_text = response['response'].strip()
StrippedResponse(r) == Strip(r.text)

\* Line 89: response and 'response' in response.
HasResponseField(r) == r.kind \in {"nonstr", "text"}

\* Whether the try block raises: the client call itself, or .strip() on a
\* 'response' that is no string.
TryRaises(r) == r.kind = "raise" \/ r.kind = "nonstr"

\* str(e) of the exception the except clause receives.
ExceptionText(r) == IF r.kind = "nonstr" THEN NoStripError ELSE r.err

\* A return statement of translate_text_to_hindi.
Return(value, exit) ==
    /\ t_pc' = "return"
    /\ t_ret' = Some(value)
    /\ t_exit' = exit

\* Lines 116-123 and 133-140: retry after a wait, or give up with `message`.
RetryOrGiveUp(message, exit) ==
    IF RetryAllowed(attempt)
    THEN /\ t_pc' = "sleep"
         /\ UNCHANGED <<t_ret, t_exit>>
    ELSE Return(message, exit)

\* Mutant of lines 125-140: the except clause gives up at once.
ExceptClauseGiveUp(e) == Return(ExceptionMessage(e), "exception")

\* Mutant of lines 125-140: the except clause drops the exception's text.
ExceptClauseNoText(e) == RetryOrGiveUp(ExhaustedMessage, "exception")

\* Mutant of lines 125-140: the except clause re-raises.
ExceptClauseReraise(e) ==
    /\ t_pc' = "raised"
    /\ UNCHANGED <<t_ret, t_exit>>

\* Lines 125-140: except Exception as e.
ExceptClause(e) == RetryOrGiveUp(ExceptionMessage(e), "exception")

\* Lines 46-72: entry of translate_text_to_hindi up to the loop header.
translate_text_to_hindi(text) ==
    /\ t_text' = text
    /\ attempt' = 0
    /\ t_calls' = 0
    /\ t_waits' = 0
    /\ t_slept' = 0
    /\ t_hist' = <<>>
    /\ IF max_retries > 0
       THEN /\ t_pc' = "call"
            /\ t_ret' = NULL
            /\ t_exit' = "none"
       ELSE Return(MaxRetriesExceeded, "fallthrough")

\* Lines 145-170: translate_reasoning_trace up to its call of the engine.
translate_reasoning_trace(trace_text) ==
    /\ t_trace' = Some(trace_text)
    /\ translate_text_to_hindi(contextual_prompt(trace_text))

\* Lines 73-140: one iteration of the retry loop, the client answering r.
Attempt(r) ==
    /\ t_pc = "call"
    /\ t_calls' = t_calls + 1
    /\ t_hist' = Append(t_hist, r)
    /\ IF TryRaises(r)
       THEN ExceptClause(ExceptionText(r))
       ELSE IF HasResponseField(r) /\ IsValidTranslation(StrippedResponse(r), t_text)
            THEN Return(StrippedResponse(r), "success")
            ELSE RetryOrGiveUp(ExhaustedMessage, "invalid")
    /\ UNCHANGED <<t_trace, t_text, attempt, t_waits, t_slept>>

\* Lines 120-121, 137-138 and the loop header: the wait, then the next attempt.
RetrySleep ==
    /\ t_pc = "sleep"
    /\ t_waits' = t_waits + 1
    /\ t_slept' = t_slept + RETRY_DELAY
    /\ attempt' = attempt + 1
    /\ IF attempt + 1 < max_retries
       THEN /\ t_pc' = "call"
            /\ UNCHANGED <<t_ret, t_exit>>
       ELSE Return(MaxRetriesExceeded, "fallthrough")
    /\ UNCHANGED <<t_trace, t_text, t_calls, t_hist>>

\* The engine's locals once the caller has taken the result.
EngineIdle ==
    /\ t_pc = "idle"
    /\ t_trace = NULL
    /\ t_text = <<>>
    /\ attempt = 0
    /\ t_calls = 0
    /\ t_waits = 0
    /\ t_slept = 0
    /\ t_hist = <<>>
    /\ t_ret = NULL
    /\ t_exit = "none"

\* The answers of the client the engine is explored with, for the call in
\* progress: faults, blank text, text needing a strip, the text it was asked
\* to translate, the trace inside it, the prompt it was sent, text that reads
\* like an error message, and the engine's own give-up message.
ClientResponses ==
    { Raise(ConnectionRefused), Raise(<<>>), Malformed, NonString }
    \cup { Text(s) : s \in
            { <<>>, <<" ", "\n">>, Hindi, <<" ">> \o Hindi \o <<"\n">>,
              t_text, translation_prompt(t_text),
              <<"Translation error", ":", " ", "x">>,
              ExhaustedMessage } }
    \cup { Text(t_trace[i]) : i \in DOMAIN t_trace }

\* Arguments the engine is called with.
DirectTexts == { <<>>, <<"x">>, <<" ", "x">> }
TraceTexts  == { <<>>, <<"e">>, <<"e", "\n">> }

\* ------------------------------------------------------------ record store
\* entry['trace_hi_with_think'] present and truthy (line 232).
HasTranslationKeyOnly(entry) == entry.trace_hi_with_think # NULL

HasTranslation(entry) ==
    entry.trace_hi_with_think # NULL /\ entry.trace_hi_with_think[1] # <<>>

\* Lines 232-244: the row one INSERT of save_to_database adds to table d at
\* time now; AUTOINCREMENT gives it the next id.
InsertedRow(d, entry, now) ==
    IF HasTranslation(entry)
    THEN [id |-> Len(d) + 1, title |-> entry.title, content |-> entry.content,
          trace_en_with_think |-> entry.trace_en_with_think,
          trace_hi_with_think |-> entry.trace_hi_with_think,
          translation_status |-> "completed",
          created_at |-> now, translated_at |-> Some(now)]
    ELSE [id |-> Len(d) + 1, title |-> entry.title, content |-> entry.content,
          trace_en_with_think |-> entry.trace_en_with_think,
          trace_hi_with_think |-> NULL,
          translation_status |-> "pending",
          created_at |-> now, translated_at |-> NULL]

\* save_to_database(conn, [entry]): the table after the INSERT and the commit.
save_to_database(d, entry, now) == Append(d, InsertedRow(d, entry, now))

SetTranslationTouchCreated(row, hindi_trace, now) ==
    [row EXCEPT !.trace_hi_with_think = Some(hindi_trace),
                !.translation_status = "completed",
                !.translated_at = Some(now),
                !.created_at = now]

SetTranslationAppend(row, hindi_trace, now) ==
    [row EXCEPT !.trace_hi_with_think =
                    IF row.trace_hi_with_think = NULL
                    THEN Some(hindi_trace)
                    ELSE Some(row.trace_hi_with_think[1] \o hindi_trace),
                !.translation_status = "completed",
                !.translated_at = Some(now)]

\* The SET clause of both UPDATE statements (lines 328 and 484).
SetTranslation(row, hindi_trace, now) ==
    [row EXCEPT !.trace_hi_with_think = Some(hindi_trace),
                !.translation_status = "completed",
                !.translated_at = Some(now)]

UpdateUpToId(d, trace_id, hindi_trace, now) ==
    [i \in DOMAIN d |->
        IF d[i].id <= trace_id THEN SetTranslation(d[i], hindi_trace, now) ELSE d[i]]

UpdateAllRows(d, trace_id, hindi_trace, now) ==
    [i \in DOMAIN d |-> SetTranslation(d[i], hindi_trace, now)]

\* Lines 326-332: UPDATE ... WHERE id = ?, committed.
update_translation_in_database(d, trace_id, hindi_trace, now) ==
    [i \in DOMAIN d |->
        IF d[i].id = trace_id THEN SetTranslation(d[i], hindi_trace, now) ELSE d[i]]

\* Lines 482-487 of main: UPDATE ... WHERE title = ? AND trace_en_with_think = ?.
UpdateByTitleAndTrace(d, title, trace_en, hindi_trace, now) ==
    [i \in DOMAIN d |->
        IF d[i].title = title /\ d[i].trace_en_with_think = trace_en
        THEN SetTranslation(d[i], hindi_trace, now)
        ELSE d[i]]

\* The WHERE clause of get_untranslated_traces (line 285).
IsUntranslated(row) ==
    row.translation_status = "pending" \/ row.trace_hi_with_think = NULL

\* The columns get_untranslated_traces selects (lines 283, 292-297).
Selected(row) ==
    [id |-> row.id, title |-> row.title, trace_en_with_think |-> row.trace_en_with_think]

get_untranslated_traces_desc(d) ==
    LET rows == SelectSeq(d, IsUntranslated)
    IN  [i \in DOMAIN rows |-> Selected(rows[Len(rows) + 1 - i])]

get_all_traces(d) == [i \in DOMAIN d |-> Selected(d[i])]

\* Lines 280-302: the rows that qualify, ORDER BY id ASC.
get_untranslated_traces(d) ==
    LET rows == SelectSeq(d, IsUntranslated)
    IN  [i \in DOMAIN rows |-> Selected(rows[i])]

IsCompletedNullTrace(row) ==
    row.translation_status = "completed" /\ row.trace_hi_with_think = NULL

\* The WHERE clause of the completed count (line 65).
IsCompleted(row) ==
    row.translation_status = "completed" /\ row.trace_hi_with_think # NULL

IsPendingAndNotNull(row) ==
    row.translation_status = "pending" /\ row.trace_hi_with_think # NULL

\* The WHERE clause of the pending count (line 69 of translate_pipeline.py).
IsPending(row) ==
    row.translation_status = "pending" \/ row.trace_hi_with_think = NULL

\* Lines 57-84 of translate_pipeline.py: the three SELECT COUNT(*).
check_database_status(d) ==
    [total_traces |-> Len(d),
     completed_translations |-> Cardinality({i \in DOMAIN d : IsCompleted(d[i])}),
     pending_translations |-> Cardinality({i \in DOMAIN d : IsPending(d[i])})]

\* ------------------------------------------------------------ orchestrator
\* Line 178 of translate_pipeline.py: the prefixes that mark a failed result.
ErrorPrefixes ==
    { <<"Translation error", ":">>, <<"Translation timeout", ":">>,
      <<"Translation request error", ":">>, <<"Unexpected translation error", ":">> }

IsErrorMessage(hindi_trace) == \E p \in ErrorPrefixes : StartsWith(hindi_trace, p)

\* Lines 126-165 of traceWithThink.py: the trace for what the client did
\* (response['response'] of a response without that key raises KeyError).
get_reasoning_trace_with_think(g) ==
    IF g.kind = "text"
    THEN Strip(g.text)
    ELSE <<"Error generating WITH THINK reasoning trace", ":", " ">> \o
         (CASE g.kind = "raise" -> g.err
            [] g.kind = "none" -> <<"'response'">>
            [] OTHER -> NoStripError)

\* A store operation called on its own: the operation, the id and the text it
\* was given (for a save, the entry's trace_hi_with_think), whether the
\* database raised inside it, and what it returned.
NoStatus == [total_traces |-> 0, completed_translations |-> 0, pending_translations |-> 0]
StoreCall(op, trace_id, text, raised, rows, status) ==
    [op |-> op, id |-> trace_id, text |-> text, raised |-> raised,
     rows |-> rows, status |-> status]
NoCall == StoreCall("none", 0, NULL, FALSE, <<>>, NoStatus)

\* No script is running: the locals of main and translate_all_pending_traces.
RunIdle ==
    /\ pc = "idle"
    /\ entries = <<>>
    /\ m_i = 0
    /\ m_trace = <<>>
    /\ work = <<>>
    /\ w_i = 0
    /\ successful_translations = 0
    /\ failed_translations = 0
    /\ upd_log = <<>>
    /\ eng_log = <<>>

\* The process ends: every local of the script and of the engine is gone.
Exit ==
    /\ pc' = "idle"
    /\ entries' = <<>>
    /\ m_i' = 0
    /\ m_trace' = <<>>
    /\ work' = <<>>
    /\ w_i' = 0
    /\ successful_translations' = 0
    /\ failed_translations' = 0
    /\ upd_log' = <<>>
    /\ eng_log' = <<>>

\* The engine's frame is popped once its caller has the result.
EngineReturns ==
    /\ t_pc' = "idle"
    /\ t_trace' = NULL
    /\ t_text' = <<>>
    /\ attempt' = 0
    /\ t_calls' = 0
    /\ t_waits' = 0
    /\ t_slept' = 0
    /\ t_hist' = <<>>
    /\ t_ret' = NULL
    /\ t_exit' = "none"

\* One call of update_translation_in_database: its arguments and whether the
\* UPDATE was committed (it raises otherwise).
UpdateCall(trace_id, hindi_trace, stored) ==
    [id |-> trace_id, text |-> hindi_trace, stored |-> stored]

\* What the engine handed back for row trace_id.
EngineResult(trace_id) ==
    [id |-> trace_id, exit |-> t_exit, ret |-> t_ret[1], calls |-> t_calls]

\* ------------------------------------------- specification of the engine
\* translate_text_to_hindi and translate_reasoning_trace called on their own
\* (as test_translation_service does), for every MAX_RETRIES up to the bound.
InitEngine ==
    /\ max_retries \in 0..MaxRetriesBound
    /\ EngineIdle
    /\ db = <<>>
    /\ clock = 0
    /\ RunIdle
    /\ s_call = NoCall
    /\ s_prev = NoCall

CallTranslateText ==
    /\ t_pc = "idle"
    /\ \E text \in DirectTexts :
          /\ t_trace' = NULL
          /\ translate_text_to_hindi(text)
    /\ UNCHANGED <<max_retries, s_call, s_prev, storeVars, runVars>>

CallTranslateTrace ==
    /\ t_pc = "idle"
    /\ \E trace_text \in TraceTexts : translate_reasoning_trace(trace_text)
    /\ UNCHANGED <<max_retries, s_call, s_prev, storeVars, runVars>>

ClientAnswers ==
    /\ \E r \in ClientResponses : Attempt(r)
    /\ UNCHANGED <<max_retries, s_call, s_prev, storeVars, runVars>>

Wait ==
    /\ RetrySleep
    /\ UNCHANGED <<max_retries, s_call, s_prev, storeVars, runVars>>

NextEngine ==
    \/ CallTranslateText
    \/ CallTranslateTrace
    \/ ClientAnswers
    \/ Wait

SpecEngine == InitEngine /\ [][NextEngine]_vars

\* ---------------------------------------- specification of the pipelines
\* What the JSONL file holds, what the model answers when asked for a
\* reasoning trace, and what it answers when asked for a translation.
Titles == {"Two Sum", "Add Two Numbers"}
InputEntries == { [title |-> t, content |-> <<"c">>] : t \in Titles }
EntryLists ==
    { es \in UNION { [1..n -> InputEntries] : n \in 1..NUM_ENTRIES } : TRUE }
Generations == { Text(<<"e", "\n">>), Raise(ConnectionRefused) }
PipelineResponses ==
    { Raise(ConnectionRefused), Text(<<" ">>), Text(Hindi),
      Text(<<"Translation error", ":", " ", "x">>) }
\* Entries handed to save_to_database directly: without a translation, with
\* an empty one and with one.
SavedEntries ==
    { [title |-> "Two Sum", content |-> <<"c">>, trace_en_with_think |-> <<"e">>,
       trace_hi_with_think |-> hi] : hi \in {NULL, Some(<<>>), Some(Hindi)} }

Init ==
    /\ max_retries = MAX_RETRIES
    /\ EngineIdle
    /\ db = <<>>
    /\ clock = 0
    /\ RunIdle
    /\ s_call = NoCall
    /\ s_prev = NoCall

\* save_to_database called with one entry (lines 229-249).
SaveEntry ==
    /\ pc = "idle"
    /\ Len(db) < MaxRecords
    /\ \E entry \in SavedEntries :
          db' = save_to_database(db, entry, clock + 1)
    /\ clock' = clock + 1
    /\ UNCHANGED <<max_retries, s_call, s_prev, engineVars, runVars>>

\* main, lines 425-448: the entries are read and the loop is entered.
MainStart ==
    /\ pc = "idle"
    /\ \E es \in EntryLists :
          /\ Len(db) + Len(es) <= MaxRecords
          /\ entries' = es
    /\ m_i' = 1
    /\ pc' = "main_loop"
    /\ UNCHANGED <<max_retries, s_call, s_prev, engineVars, storeVars, m_trace, work, w_i,
                   successful_translations, failed_translations, upd_log, eng_log>>

\* main, lines 448-478: the trace of entry m_i is generated and saved, and
\* its translation is started.  A failing INSERT leaves main as an exception.
MainCreate ==
    /\ pc = "main_loop"
    /\ m_i <= Len(entries)
    /\ \E g \in Generations, stored \in BOOLEAN :
          LET trace_en_with_think == get_reasoning_trace_with_think(g)
              entry_with_trace ==
                  [title |-> entries[m_i].title, content |-> entries[m_i].content,
                   trace_en_with_think |-> trace_en_with_think,
                   trace_hi_with_think |-> NULL]
          IN  IF stored
              THEN /\ db' = save_to_database(db, entry_with_trace, clock + 1)
                   /\ clock' = clock + 1
                   /\ m_trace' = trace_en_with_think
                   /\ translate_reasoning_trace(trace_en_with_think)
                   /\ pc' = "main_translating"
                   /\ UNCHANGED <<entries, m_i, work, w_i, successful_translations,
                                  failed_translations, upd_log, eng_log>>
              ELSE /\ pc' = "raised"
                   /\ UNCHANGED <<engineVars, storeVars, entries, m_i, m_trace, work, w_i,
                                  successful_translations, failed_translations,
                                  upd_log, eng_log>>
    /\ UNCHANGED <<max_retries, s_call, s_prev>>

\* main, lines 480-499: the result is written to every row with this title
\* and trace, whatever the engine returned.
MainWrite ==
    /\ pc = "main_translating"
    /\ t_pc = "return"
    /\ \E stored \in BOOLEAN :
          IF stored
          THEN /\ db' = UpdateByTitleAndTrace(db, entries[m_i].title, m_trace,
                                              t_ret[1], clock + 1)
               /\ clock' = clock + 1
               /\ m_i' = m_i + 1
               /\ pc' = "main_loop"
               /\ eng_log' = Append(eng_log, EngineResult(Len(db)))
               /\ UNCHANGED <<entries, m_trace, work, w_i, successful_translations,
                              failed_translations, upd_log>>
          ELSE /\ pc' = "raised"
               /\ UNCHANGED <<storeVars, entries, m_i, m_trace, work, w_i,
                              successful_translations, failed_translations,
                              upd_log, eng_log>>
    /\ EngineReturns
    /\ UNCHANGED <<max_retries, s_call, s_prev>>

\* main line 503, process_translations lines 360-368: the fallback pass
\* fetches its work list (an error while fetching gives the empty list).
ProcessTranslations ==
    /\ pc = "main_loop"
    /\ m_i > Len(entries)
    /\ \E fetched \in BOOLEAN :
          LET untranslated_traces ==
                  IF fetched THEN get_untranslated_traces(db) ELSE <<>>
          IN  IF untranslated_traces = <<>>
              THEN Exit
              ELSE /\ work' = untranslated_traces
                   /\ w_i' = 1
                   /\ pc' = "pt_loop"
                   /\ UNCHANGED <<entries, m_i, m_trace, successful_translations,
                                  failed_translations, upd_log, eng_log>>
    /\ UNCHANGED <<max_retries, s_call, s_prev, engineVars, storeVars>>

\* process_translations, lines 370-381.
PTTranslate ==
    /\ pc = "pt_loop"
    /\ w_i <= Len(work)
    /\ translate_reasoning_trace(work[w_i].trace_en_with_think)
    /\ pc' = "pt_translating"
    /\ UNCHANGED <<max_retries, s_call, s_prev, storeVars, entries, m_i, m_trace, work, w_i,
                   successful_translations, failed_translations, upd_log, eng_log>>

\* process_translations, lines 383-393: the result is written, whatever the
\* engine returned; a failing UPDATE leaves process_translations and main as
\* an exception.
PTWrite ==
    /\ pc = "pt_translating"
    /\ t_pc = "return"
    /\ \E stored \in BOOLEAN :
          IF stored
          THEN /\ db' = update_translation_in_database(db, work[w_i].id, t_ret[1],
                                                       clock + 1)
               /\ clock' = clock + 1
               /\ w_i' = w_i + 1
               /\ pc' = "pt_loop"
               /\ upd_log' = Append(upd_log, UpdateCall(work[w_i].id, t_ret[1], TRUE))
               /\ eng_log' = Append(eng_log, EngineResult(work[w_i].id))
               /\ UNCHANGED <<entries, m_i, m_trace, work, successful_translations,
                              failed_translations>>
          ELSE /\ pc' = "raised"
               /\ upd_log' = Append(upd_log, UpdateCall(work[w_i].id, t_ret[1], FALSE))
               /\ eng_log' = Append(eng_log, EngineResult(work[w_i].id))
               /\ UNCHANGED <<storeVars, entries, m_i, m_trace, work, w_i,
                              successful_translations, failed_translations>>
    /\ EngineReturns
    /\ UNCHANGED <<max_retries, s_call, s_prev>>

\* main, lines 505-524: the fallback pass is over and main returns.
MainDone ==
    /\ pc = "pt_loop"
    /\ w_i > Len(work)
    /\ Exit
    /\ UNCHANGED <<max_retries, s_call, s_prev, engineVars, storeVars>>

\* No caller of main catches the exception: the process ends with it.
MainRaises ==
    /\ pc = "raised"
    /\ Exit
    /\ UNCHANGED <<max_retries, s_call, s_prev, engineVars, storeVars>>

\* Mutant of lines 123-150: the run goes on although nothing is pending.
BatchStartNoEarlyExit ==
    /\ pc = "idle"
    /\ \E checked \in BOOLEAN, fetched \in BOOLEAN :
          IF ~checked
          THEN /\ pc' = "batch_no_status"
               /\ UNCHANGED <<work, w_i>>
          ELSE /\ pc' = "batch_loop"
               /\ work' = IF fetched THEN get_untranslated_traces(db) ELSE <<>>
               /\ w_i' = 1
    /\ UNCHANGED <<max_retries, s_call, s_prev, engineVars, storeVars, entries, m_i, m_trace,
                   successful_translations, failed_translations, upd_log, eng_log>>

\* translate_all_pending_traces, lines 123-158: the status check (which
\* failed, 127-130, or found nothing pending, 136-141), the fetch (which
\* returned nothing, 147-150) and the entry into the loop.
BatchStart ==
    /\ pc = "idle"
    /\ \E checked \in BOOLEAN, fetched \in BOOLEAN :
          LET status == check_database_status(db)
              untranslated_traces ==
                  IF fetched THEN get_untranslated_traces(db) ELSE <<>>
          IN  IF ~checked
              THEN /\ pc' = "batch_no_status"
                   /\ UNCHANGED <<work, w_i>>
              ELSE IF status.pending_translations = 0
              THEN /\ pc' = "batch_no_pending"
                   /\ UNCHANGED <<work, w_i>>
              ELSE IF untranslated_traces = <<>>
              THEN /\ pc' = "batch_no_traces"
                   /\ UNCHANGED <<work, w_i>>
              ELSE /\ pc' = "batch_loop"
                   /\ work' = untranslated_traces
                   /\ w_i' = 1
    /\ UNCHANGED <<max_retries, s_call, s_prev, engineVars, storeVars, entries, m_i, m_trace,
                   successful_translations, failed_translations, upd_log, eng_log>>

\* translate_all_pending_traces, lines 160-175.
BatchTranslate ==
    /\ pc = "batch_loop"
    /\ w_i <= Len(work)
    /\ translate_reasoning_trace(work[w_i].trace_en_with_think)
    /\ pc' = "batch_translating"
    /\ UNCHANGED <<max_retries, s_call, s_prev, storeVars, entries, m_i, m_trace, work, w_i,
                   successful_translations, failed_translations, upd_log, eng_log>>

\* Mutant of lines 177-205: a record whose result reads like an error is
\* translated again at once instead of being skipped.
BatchHandleRetryFailed ==
    /\ pc = "batch_translating"
    /\ t_pc = "return"
    /\ LET hindi_trace == t_ret[1]
       IN  IF IsErrorMessage(hindi_trace) \/ t_exit # "success"
           THEN UNCHANGED <<storeVars, successful_translations, failed_translations,
                            upd_log, eng_log, w_i>>
           ELSE /\ upd_log' = Append(upd_log, UpdateCall(work[w_i].id, hindi_trace, TRUE))
                /\ db' = update_translation_in_database(db, work[w_i].id, hindi_trace,
                                                        clock + 1)
                /\ clock' = clock + 1
                /\ successful_translations' = successful_translations + 1
                /\ eng_log' = Append(eng_log, EngineResult(work[w_i].id))
                /\ w_i' = w_i + 1
                /\ UNCHANGED failed_translations
    /\ pc' = "batch_loop"
    /\ EngineReturns
    /\ UNCHANGED <<max_retries, s_call, s_prev, entries, m_i, m_trace, work>>

\* Mutant of lines 177-205: a result that reads like an error is skipped
\* without being counted.
BatchHandleUncounted ==
    /\ pc = "batch_translating"
    /\ t_pc = "return"
    /\ LET hindi_trace == t_ret[1]
       IN  IF IsErrorMessage(hindi_trace)
           THEN UNCHANGED <<storeVars, successful_translations, failed_translations,
                            upd_log>>
           ELSE /\ upd_log' = Append(upd_log, UpdateCall(work[w_i].id, hindi_trace, TRUE))
                /\ db' = update_translation_in_database(db, work[w_i].id, hindi_trace,
                                                        clock + 1)
                /\ clock' = clock + 1
                /\ successful_translations' = successful_translations + 1
                /\ UNCHANGED failed_translations
    /\ eng_log' = Append(eng_log, EngineResult(work[w_i].id))
    /\ w_i' = w_i + 1
    /\ pc' = "batch_loop"
    /\ EngineReturns
    /\ UNCHANGED <<max_retries, s_call, s_prev, entries, m_i, m_trace, work>>

\* translate_all_pending_traces, lines 177-205: the failure test, the write
\* and the counters; an exception of the write is caught and counted.
BatchHandle ==
    /\ pc = "batch_translating"
    /\ t_pc = "return"
    /\ LET hindi_trace == t_ret[1]
       IN  IF IsErrorMessage(hindi_trace)
           THEN /\ failed_translations' = failed_translations + 1
                /\ UNCHANGED <<storeVars, successful_translations, upd_log>>
           ELSE \E stored \in BOOLEAN :
                   /\ upd_log' = Append(upd_log,
                                        UpdateCall(work[w_i].id, hindi_trace, stored))
                   /\ IF stored
                      THEN /\ db' = update_translation_in_database(
                                        db, work[w_i].id, hindi_trace, clock + 1)
                           /\ clock' = clock + 1
                           /\ successful_translations' = successful_translations + 1
                           /\ UNCHANGED failed_translations
                      ELSE /\ failed_translations' = failed_translations + 1
                           /\ UNCHANGED <<storeVars, successful_translations>>
    /\ eng_log' = Append(eng_log, EngineResult(work[w_i].id))
    /\ w_i' = w_i + 1
    /\ pc' = "batch_loop"
    /\ EngineReturns
    /\ UNCHANGED <<max_retries, s_call, s_prev, entries, m_i, m_trace, work>>

\* translate_all_pending_traces, lines 207-237: the summary.
BatchSummary ==
    /\ pc = "batch_loop"
    /\ w_i > Len(work)
    /\ pc' = "batch_done"
    /\ UNCHANGED <<max_retries, s_call, s_prev, engineVars, storeVars, entries, m_i,
                   m_trace, work, w_i, successful_translations, failed_translations,
                   upd_log, eng_log>>

\* The three early returns of translate_all_pending_traces.
BatchExits == {"batch_no_status", "batch_no_pending", "batch_no_traces"}

\* translate_all_pending_traces returns.
BatchReturn ==
    /\ pc \in {"batch_done"} \cup BatchExits
    /\ Exit
    /\ UNCHANGED <<max_retries, s_call, s_prev, engineVars, storeVars>>

\* ollama.generate answers the translation request in progress.
TranslationAnswers ==
    /\ pc \in {"main_translating", "pt_translating", "batch_translating"}
    /\ \E r \in PipelineResponses : Attempt(r)
    /\ UNCHANGED <<max_retries, s_call, s_prev, storeVars, runVars>>

\* time.sleep(RETRY_DELAY) of the translation in progress.
TranslationWaits ==
    /\ pc \in {"main_translating", "pt_translating", "batch_translating"}
    /\ RetrySleep
    /\ UNCHANGED <<max_retries, s_call, s_prev, storeVars, runVars>>

\* The running script is interrupted (Ctrl-C, kill): committed rows stay.
Interrupt ==
    /\ pc \notin {"idle", "raised"}
    /\ Exit
    /\ EngineReturns
    /\ UNCHANGED <<max_retries, s_call, s_prev, storeVars>>

Next ==
    \/ SaveEntry
    \/ MainStart
    \/ MainCreate
    \/ MainWrite
    \/ ProcessTranslations
    \/ PTTranslate
    \/ PTWrite
    \/ MainDone
    \/ MainRaises
    \/ BatchStart
    \/ BatchTranslate
    \/ BatchHandle
    \/ BatchSummary
    \/ BatchReturn
    \/ TranslationAnswers
    \/ TranslationWaits
    \/ Interrupt

Spec == Init /\ [][Next]_vars

\* -------------------------------------- specification of the batch runs
\* translate_all_pending_traces run again and again on a table that
\* save_to_database filled, every client call, wait and store operation
\* returning.
RECURSIVE SavedTable(_)
SavedTable(es) ==
    IF es = <<>>
    THEN <<>>
    ELSE save_to_database(SavedTable(SubSeq(es, 1, Len(es) - 1)), es[Len(es)], Len(es))

BatchTables ==
    { SavedTable(es) : es \in UNION { [1..n -> SavedEntries] : n \in 0..MaxRecords } }

InitBatch ==
    /\ max_retries = MAX_RETRIES
    /\ EngineIdle
    /\ db \in BatchTables
    /\ clock = Len(db)
    /\ RunIdle
    /\ s_call = NoCall
    /\ s_prev = NoCall

NextBatch ==
    \/ BatchStart
    \/ BatchTranslate
    \/ BatchHandle
    \/ BatchSummary
    \/ BatchReturn
    \/ TranslationAnswers
    \/ TranslationWaits

SpecBatch == InitBatch /\ [][NextBatch]_vars /\ WF_vars(NextBatch)

\* ------------------------------------------ specification of the store
\* The four store operations called on their own, in any order, on the table
\* setup_database created.  MaxStoreWrites bounds the committed writes.
MaxStoreWrites == 5
\* The translations handed to update_translation_in_database directly.
StoreTexts == {Hindi, <<"h">>}

InitStore ==
    /\ max_retries = MAX_RETRIES
    /\ EngineIdle
    /\ db = <<>>
    /\ clock = 0
    /\ RunIdle
    /\ s_call = NoCall
    /\ s_prev = NoCall

\* save_to_database(conn, [entry]), lines 228-264: the INSERT is committed,
\* or the database raises and the exception is re-raised.
StoreSave ==
    /\ clock < MaxStoreWrites
    /\ s_prev' = s_call
    /\ \E entry \in SavedEntries, stored \in BOOLEAN :
          /\ s_call' = StoreCall("save", Len(db) + 1, entry.trace_hi_with_think,
                                 ~stored, <<>>, NoStatus)
          /\ IF stored
             THEN /\ db' = save_to_database(db, entry, clock + 1)
                  /\ clock' = clock + 1
             ELSE UNCHANGED storeVars
    /\ UNCHANGED <<max_retries, engineVars, runVars>>

\* update_translation_in_database(conn, trace_id, hindi_trace), lines
\* 324-342, for an id of the table or one past its end: the UPDATE is
\* committed, or the database raises and the exception is re-raised.
StoreUpdate ==
    /\ clock < MaxStoreWrites
    /\ s_prev' = s_call
    /\ \E trace_id \in 1..(Len(db) + 1), hindi_trace \in StoreTexts, stored \in BOOLEAN :
          /\ s_call' = StoreCall("update", trace_id, Some(hindi_trace), ~stored,
                                 <<>>, NoStatus)
          /\ IF stored
             THEN /\ db' = update_translation_in_database(db, trace_id, hindi_trace,
                                                         clock + 1)
                  /\ clock' = clock + 1
             ELSE UNCHANGED storeVars
    /\ UNCHANGED <<max_retries, engineVars, runVars>>

StoreFetchConsuming ==
    /\ s_prev' = s_call
    /\ s_call' = StoreCall("fetch", 0, NULL, FALSE, get_untranslated_traces(db), NoStatus)
    /\ db' = [i \in DOMAIN db |->
                 IF IsUntranslated(db[i]) THEN SetTranslation(db[i], <<>>, clock) ELSE db[i]]
    /\ UNCHANGED <<max_retries, engineVars, clock, runVars>>

\* get_untranslated_traces(conn), lines 280-309: the rows, or [] when the
\* database raised.
StoreFetch ==
    /\ s_prev' = s_call
    /\ \E fetched \in BOOLEAN :
          s_call' = StoreCall("fetch", 0, NULL, ~fetched,
                              IF fetched THEN get_untranslated_traces(db) ELSE <<>>,
                              NoStatus)
    /\ UNCHANGED <<max_retries, engineVars, storeVars, runVars>>

\* check_database_status(conn), lines 57-91: the counts, or {} when the
\* database raised.
StoreStatus ==
    /\ s_prev' = s_call
    /\ \E checked \in BOOLEAN :
          s_call' = StoreCall("status", 0, NULL, ~checked, <<>>,
                              IF checked THEN check_database_status(db) ELSE NoStatus)
    /\ UNCHANGED <<max_retries, engineVars, storeVars, runVars>>

NextStore ==
    \/ StoreSave
    \/ StoreUpdate
    \/ StoreFetch
    \/ StoreStatus

SpecStore == InitStore /\ [][NextStore]_vars

\* ================================================================ claims
\* Vocabulary of the claims.
RowOf(trace_id) == db[trace_id]
IsPendingNull(row) ==
    row.translation_status = "pending" /\ row.trace_hi_with_think = NULL
LastAnswer == t_hist[Len(t_hist)]
\* The client call failed: it raised, answered without a usable text field,
\* or answered text that is empty or the text to translate.
ClientFailed(r) ==
    r.kind # "text" \/ Strip(r.text) = <<>> \/ Strip(r.text) = t_text
ClientValid(r) == ~ClientFailed(r)
IsFault(r) == r.kind \in {"raise", "none", "nonstr"}
AlwaysFailed == \A i \in DOMAIN t_hist : ClientFailed(t_hist[i])
GaveUp == t_pc = "return" /\ t_exit \in {"invalid", "exception", "fallthrough"}
\* The strings translate_text_to_hindi returns when it gives up.
EngineFailureValues ==
    {ExhaustedMessage, MaxRetriesExceeded}
    \cup {ExceptionMessage(e) : e \in {ConnectionRefused, <<>>, NoStripError}}
\* The last result the engine gave for row trace_id in this run was a failure.
LastResultFailed(trace_id) ==
    \E k \in DOMAIN eng_log :
        /\ eng_log[k].id = trace_id
        /\ eng_log[k].exit # "success"
        /\ \A j \in (k + 1)..Len(eng_log) : eng_log[j].id # trace_id
UpdateCallsFor(trace_id) == {j \in DOMAIN upd_log : upd_log[j].id = trace_id}

\* C1: at the end of a batch run, a record for which the engine returned a
\* failure was not passed to update_translation_in_database and is still
\* pending with a NULL translation.
C1_BatchFailureNotWritten ==
    pc = "batch_done" =>
        \A k \in DOMAIN eng_log :
            eng_log[k].exit # "success" =>
                /\ UpdateCallsFor(eng_log[k].id) = {}
                /\ IsPendingNull(RowOf(eng_log[k].id))

\* C2: in main's inline loop and in process_translations, a record whose
\* translation failed in the engine is not written back: it stays pending
\* with a NULL translation.
C2_InlineFailureNotWritten ==
    pc \in {"main_loop", "main_translating", "pt_loop", "pt_translating"} =>
        \A i \in DOMAIN db : LastResultFailed(i) => IsPendingNull(db[i])

\* C3: in every reachable state every row is completed if and only if its
\* translation is neither NULL nor the empty string.
C3_CompletedIffTranslated ==
    \A i \in DOMAIN db :
        (db[i].translation_status = "completed")
            <=> (db[i].trace_hi_with_think # NULL /\ db[i].trace_hi_with_think[1] # <<>>)

\* C3 witness: a batch run has written a translation, and the table holds a
\* completed row and a pending one.
C3_Witness ==
    /\ pc = "batch_done"
    /\ successful_translations >= 1
    /\ \E i \in DOMAIN db : db[i].translation_status = "completed"
    /\ \E i \in DOMAIN db : db[i].translation_status = "pending"

\* C4: one translate call makes at most MAX_RETRIES client calls, and when
\* every client call failed it returns a failure after exactly MAX_RETRIES
\* calls (for every MAX_RETRIES >= 1).
C4_RetryBound ==
    /\ t_calls = Len(t_hist)
    /\ t_calls <= max_retries
    /\ (max_retries >= 1 /\ t_pc \in {"call", "sleep"}) => t_calls < max_retries
    /\ (max_retries >= 1 /\ t_pc = "return" /\ AlwaysFailed) =>
           /\ t_exit \in {"invalid", "exception"}
           /\ t_calls = max_retries
           /\ t_ret[1] \in EngineFailureValues

\* C4 witness: a call with the default MAX_RETRIES gave up after a raise, a
\* malformed response and an unchanged text.
C4_Witness ==
    /\ max_retries = MAX_RETRIES
    /\ GaveUp
    /\ t_calls = MAX_RETRIES
    /\ AlwaysFailed
    /\ \E i, j, k \in DOMAIN t_hist :
          /\ t_hist[i].kind = "raise"
          /\ t_hist[j].kind = "none"
          /\ t_hist[k] = Text(t_text)

\* C5: with a client that answers every call with the prompt it was sent,
\* the engine does not return success (stated for the default MAX_RETRIES
\* and a non-empty text).
C5_EchoRejected ==
    (/\ t_pc = "return"
     /\ max_retries = MAX_RETRIES
     /\ t_text # <<>>
     /\ t_hist # <<>>
     /\ \A i \in DOMAIN t_hist : t_hist[i] = Text(translation_prompt(t_text)))
        => t_exit # "success"

\* C6: what translate_reasoning_trace(trace_text) returns as the translation
\* is non-empty and differs from trace_text (stated for the default
\* MAX_RETRIES).
C6_TraceEchoRejected ==
    (/\ t_pc = "return"
     /\ max_retries = MAX_RETRIES
     /\ t_exit = "success"
     /\ t_trace # NULL) =>
        /\ t_ret[1] # <<>>
        /\ t_ret[1] # t_trace[1]

\* C7: for MAX_RETRIES >= 1, no accepted translation is one of the engine's
\* give-up values, and the failure test of translate_all_pending_traces is
\* true of exactly the results with which the engine gave up.
C7_FailureDistinguishable ==
    (t_pc = "return" /\ max_retries >= 1) =>
        /\ (t_exit = "success" => t_ret[1] \notin EngineFailureValues)
        /\ (IsErrorMessage(t_ret[1]) <=> t_exit # "success")

\* C8: a fault of the client never leaves the engine as an exception: after
\* a fault the call waits to retry or has returned a give-up value, the
\* latter only once MAX_RETRIES calls were made.
C8_FaultsDoNotEscape ==
    /\ t_pc \in {"idle", "call", "sleep", "return"}
    /\ (t_pc = "return" => t_ret # NULL)
    /\ (t_hist # <<>> /\ IsFault(LastAnswer)) =>
           \/ t_pc \in {"call", "sleep"} /\ t_calls < max_retries
           \/ /\ GaveUp
              /\ t_calls = max_retries
              /\ t_ret[1] \in EngineFailureValues

\* C8 witness: the client raised and answered malformed responses, and the
\* call returned after the last fault.
C8_Witness ==
    /\ GaveUp
    /\ t_calls = MAX_RETRIES
    /\ \E i, j \in DOMAIN t_hist : t_hist[i].kind = "raise" /\ t_hist[j].kind = "nonstr"
    /\ LastAnswer.kind = "raise"

C10_BatchSuccessWrittenOnce ==
    pc \in {"batch_loop", "batch_translating", "batch_done"} =>
        \A k \in DOMAIN eng_log :
            eng_log[k].exit = "success" =>
                /\ Cardinality(UpdateCallsFor(eng_log[k].id)) = 1
                /\ \A j \in UpdateCallsFor(eng_log[k].id) :
                      /\ upd_log[j].text = eng_log[k].ret
                      /\ upd_log[j].stored =>
                            /\ RowOf(eng_log[k].id).translation_status = "completed"
                            /\ RowOf(eng_log[k].id).trace_hi_with_think = Some(eng_log[k].ret)
                            /\ RowOf(eng_log[k].id).translated_at # NULL

\* Vocabulary of the claims about the store operations called on their own.
Done(call, op) == call.op = op /\ ~call.raised
Ids(rows) == {rows[k].id : k \in DOMAIN rows}
SameButTranslatedAt(r1, r2) ==
    [r1 EXCEPT !.translated_at = NULL] = [r2 EXCEPT !.translated_at = NULL]

\* C11: update_translation_in_database called with an id that is not in the
\* table fails (NotFound) and leaves the table as it was.
C11_UnknownIdFails ==
    (s_call.op = "update" /\ s_call.id \notin DOMAIN db) => s_call.raised

\* C12: a second call of update_translation_in_database with the id and the
\* text of the call before it leaves every row as the first call left it,
\* trace_hi_with_think and translation_status included; only translated_at
\* of the row may change.
C12_UpdateIdempotent ==
    [][(/\ Done(s_call, "update")
        /\ Done(s_call', "update")
        /\ s_call'.id = s_call.id
        /\ s_call'.text = s_call.text) =>
           /\ DOMAIN db' = DOMAIN db
           /\ \A i \in DOMAIN db :
                 /\ SameButTranslatedAt(db'[i], db[i])
                 /\ i # s_call.id => db'[i] = db[i]]_vars

\* C12 witness: the same translation was written twice in a row to a row of
\* the table.
C12_Witness ==
    /\ Done(s_prev, "update")
    /\ Done(s_call, "update")
    /\ s_call.id = s_prev.id
    /\ s_call.text = s_prev.text
    /\ s_call.id \in DOMAIN db
    /\ db[s_call.id].translated_at = Some(clock)
    /\ db[s_call.id].trace_hi_with_think = s_call.text

\* C13: when its SELECT ran, get_untranslated_traces returned exactly the
\* rows of the current table that are pending or have a NULL translation,
\* each once and by ascending id.
C13_FetchExact ==
    Done(s_call, "fetch") =>
        LET rows == s_call.rows
        IN  /\ \A k \in DOMAIN rows :
                  /\ rows[k].id \in DOMAIN db
                  /\ \/ db[rows[k].id].translation_status = "pending"
                     \/ db[rows[k].id].trace_hi_with_think = NULL
                  /\ rows[k].title = db[rows[k].id].title
                  /\ rows[k].trace_en_with_think = db[rows[k].id].trace_en_with_think
                  /\ \A j \in 1..(k - 1) : rows[j].id < rows[k].id
            /\ \A i \in DOMAIN db :
                  (db[i].translation_status = "pending" \/ db[i].trace_hi_with_think = NULL)
                      => i \in Ids(rows)

\* C13 witness: a fetch returned two rows of a table that also holds a
\* completed row with a smaller id than one of them.
C13_Witness ==
    /\ Done(s_call, "fetch")
    /\ Len(s_call.rows) = 2
    /\ \E i \in DOMAIN db :
          /\ db[i].translation_status = "completed"
          /\ i < s_call.rows[2].id

\* C14: a call of get_untranslated_traces changes no row, and two calls in
\* a row whose SELECT ran return the same set of ids.
C14_FetchRestartable ==
    [][/\ s_call'.op = "fetch" => db' = db
       /\ (Done(s_call, "fetch") /\ Done(s_call', "fetch")) =>
              Ids(s_call'.rows) = Ids(s_call.rows)]_vars

\* C14 witness: two fetches in a row returned a row each time.
C14_Witness ==
    /\ Done(s_prev, "fetch")
    /\ Done(s_call, "fetch")
    /\ s_prev.rows # <<>>
    /\ s_call.rows # <<>>
    /\ \E i \in DOMAIN db : db[i].translation_status = "completed"

\* C15: when its SELECTs ran, check_database_status returned the number of
\* rows, of rows with status completed and of rows with status pending of
\* the table as the writes before the call left it.
C15_StatusCounts ==
    Done(s_call, "status") =>
        /\ s_call.status.total_traces = Len(db)
        /\ s_call.status.completed_translations =
               Cardinality({i \in DOMAIN db : db[i].translation_status = "completed"})
        /\ s_call.status.pending_translations =
               Cardinality({i \in DOMAIN db : db[i].translation_status = "pending"})
        /\ s_call.status.total_traces =
               s_call.status.completed_translations + s_call.status.pending_translations

\* C15 witness: the summary of a table of 5 rows, 3 completed and 2 pending,
\* the last of them completed by the write just before the call.
C15_Witness ==
    /\ Done(s_call, "status")
    /\ s_call.status = [total_traces |-> 5, completed_translations |-> 3,
                        pending_translations |-> 2]
    /\ Done(s_prev, "save")
    /\ db[5].translation_status = "completed"

\* C16 as stated: every row save_to_database inserts is pending with a NULL
\* translation, whatever the entry carries.
C16_SaveAlwaysPending ==
    Done(s_call, "save") => IsPendingNull(db[s_call.id])

\* C16: the row save_to_database inserts is pending with a NULL translation
\* and a NULL translated_at unless the entry carries a non-empty
\* trace_hi_with_think; then it is completed with that text and translated_at
\* set.
C16_SavePendingUnlessTranslated ==
    Done(s_call, "save") =>
        LET row == db[s_call.id]
        IN  IF s_call.text # NULL /\ s_call.text[1] # <<>>
            THEN /\ row.translation_status = "completed"
                 /\ row.trace_hi_with_think = s_call.text
                 /\ row.translated_at = Some(row.created_at)
            ELSE /\ IsPendingNull(row)
                 /\ row.translated_at = NULL

\* C16 witness: an entry with an empty trace_hi_with_think was saved after
\* one with a translation.
C16_Witness ==
    /\ Done(s_prev, "save")
    /\ s_prev.text = Some(Hindi)
    /\ Done(s_call, "save")
    /\ s_call.text = Some(<<>>)
    /\ db[s_prev.id].translation_status = "completed"
    /\ db[s_call.id].translation_status = "pending"


\* Vocabulary of the claims about runs over the same table.
TranslationFields(row) ==
    <<row.trace_hi_with_think, row.translation_status, row.translated_at>>
InBatch == pc \in {"batch_loop", "batch_translating", "batch_done"}
InWork(trace_id) == \E k \in DOMAIN work : work[k].id = trace_id

\* C17: once a row is completed, no step of main, process_translations or
\* translate_all_pending_traces changes its trace_hi_with_think, its
\* translation_status or its translated_at.
C17_CompletedNeverRewritten ==
    [][\A i \in DOMAIN db :
          db[i].translation_status = "completed" =>
              /\ i \in DOMAIN db'
              /\ TranslationFields(db'[i]) = TranslationFields(db[i])]_vars

\* C18: translate_all_pending_traces fetches without writing, no row that is
\* completed with a translation at the fetch is in its work list, and every
\* step of the run leaves the rows outside the work list as they are and
\* deletes none.
C18_BatchWritesOnlyFetched ==
    [][/\ (pc = "idle" /\ pc' = "batch_loop") =>
              /\ db' = db
              /\ \A i \in DOMAIN db :
                    (db[i].translation_status = "completed"
                     /\ db[i].trace_hi_with_think # NULL) => ~InWork(i)'
       /\ InBatch =>
              /\ DOMAIN db' = DOMAIN db
              /\ \A i \in DOMAIN db : ~InWork(i) => db'[i] = db[i]
       /\ (InBatch /\ InBatch') => work' = work]_vars

\* C18 witness: a batch run over a table of a completed row and a pending
\* one has written the pending one and left the other as it was created.
C18_Witness ==
    /\ pc = "batch_done"
    /\ Len(db) = 2
    /\ Len(work) = 1
    /\ successful_translations = 1
    /\ \E i \in DOMAIN db :
          /\ ~InWork(i)
          /\ db[i].translation_status = "completed"
          /\ db[i].translated_at = Some(db[i].created_at)
    /\ \E i \in DOMAIN db :
          /\ InWork(i)
          /\ db[i].translation_status = "completed"
          /\ db[i].translated_at = Some(clock)

\* C19: whatever run was interrupted before, every row is pending with a
\* NULL translation or completed with a non-empty one, and a batch run in
\* which every client call answered valid text (and no write was refused by
\* the database) ends with every row completed.
C19_InterruptedRunResumes ==
    /\ \A i \in DOMAIN db :
          \/ IsPendingNull(db[i])
          \/ /\ db[i].translation_status = "completed"
             /\ db[i].trace_hi_with_think # NULL
             /\ db[i].trace_hi_with_think[1] # <<>>
    /\ (/\ pc = "batch_done"
        /\ \A k \in DOMAIN eng_log :
              eng_log[k].exit = "success" /\ eng_log[k].calls = 1
        /\ \A j \in DOMAIN upd_log : upd_log[j].stored) =>
           \A i \in DOMAIN db : db[i].translation_status = "completed"

\* C20: at the end of a batch run, every row whose translation failed in the
\* run (the engine gave up, or the write was refused) is a row that
\* get_untranslated_traces returns to the next run.
C20_FailedRecordRetried ==
    pc = "batch_done" =>
        \A k \in DOMAIN eng_log :
            (\/ eng_log[k].exit # "success"
             \/ \E j \in UpdateCallsFor(eng_log[k].id) : ~upd_log[j].stored) =>
                eng_log[k].id \in Ids(get_untranslated_traces(db))


\* Vocabulary of the claims about the orchestrator loops.
WriteRefused(trace_id) == \E j \in UpdateCallsFor(trace_id) : ~upd_log[j].stored
Handled == {eng_log[k].id : k \in DOMAIN eng_log}

\* C21: a write refused by the database does not end process_translations
\* with the exception while it handles a record of its work list, and a batch
\* run reaches its summary with every record of the work list handled and
\* every refused write counted as failed.
C21_StorageErrorNotFatal ==
    /\ pc = "raised" => w_i \notin DOMAIN work
    /\ pc = "batch_done" =>
           /\ \A k \in DOMAIN work : work[k].id \in Handled
           /\ failed_translations >=
                  Cardinality({j \in DOMAIN upd_log : ~upd_log[j].stored})


\* C22: in a batch run the work list is in ascending id order; the records
\* handled so far are the first w_i - 1 of it, in that order; the engine is
\* called only from the loop head, with the engine idle, for the record at
\* w_i, which has not been handled before; and w_i moves on only when that
\* record's translate-and-write step is over.
C22_BatchOneAtATime ==
    [][/\ (pc \in {"batch_loop", "batch_translating"}) =>
              /\ \A j, k \in DOMAIN work : j < k => work[j].id < work[k].id
              /\ Len(eng_log) = w_i - 1
              /\ \A k \in DOMAIN eng_log : eng_log[k].id = work[k].id
              /\ (pc = "batch_loop") <=> (t_pc = "idle")
              /\ pc = "batch_translating" =>
                     t_trace = Some(work[w_i].trace_en_with_think)
       /\ (InBatch /\ t_pc = "idle" /\ t_pc' # "idle") =>
              /\ pc = "batch_loop" /\ pc' = "batch_translating"
              /\ w_i' = w_i /\ w_i \in DOMAIN work
              /\ t_trace' = Some(work[w_i].trace_en_with_think)
       /\ (InBatch /\ w_i' # w_i) =>
              \/ /\ pc = "batch_translating" /\ pc' = "batch_loop"
                 /\ w_i' = w_i + 1
                 /\ eng_log' = Append(eng_log, EngineResult(work[w_i].id))
              \/ pc' = "idle"]_vars

\* C22 witness: a batch run over two records reached its summary after the
\* engine gave up on the first and translated the second.
C22_Witness ==
    /\ pc = "batch_done"
    /\ Len(work) = 2
    /\ Len(eng_log) = 2
    /\ eng_log[1].id = work[1].id /\ eng_log[1].exit # "success"
    /\ eng_log[2].id = work[2].id /\ eng_log[2].exit = "success"


\* C23: at the summary of a batch run, failed_translations is the number of
\* work-list records on which the engine gave up or whose write was refused,
\* and successful_translations is the number of records the engine translated
\* and the run wrote as completed.
C23_EveryFailureCounted ==
    pc = "batch_done" =>
        /\ failed_translations =
               Cardinality({k \in DOMAIN eng_log :
                               \/ eng_log[k].exit # "success"
                               \/ WriteRefused(eng_log[k].id)})
        /\ successful_translations =
               Cardinality({k \in DOMAIN eng_log :
                               /\ eng_log[k].exit = "success"
                               /\ ~WriteRefused(eng_log[k].id)
                               /\ RowOf(eng_log[k].id).translation_status = "completed"
                               /\ RowOf(eng_log[k].id).trace_hi_with_think
                                      = Some(eng_log[k].ret)})

\* C24: in main's loop a record is created only at the loop head, after the
\* translations of all earlier entries were written, and the write after
\* translating an entry changes no row but the one just created for it.
C24_InlineOneRecordAtATime ==
    [][/\ (pc \in {"main_loop", "main_translating"} /\ Len(db') > Len(db)) =>
              /\ pc = "main_loop" /\ pc' = "main_translating"
              /\ Len(db') = Len(db) + 1
              /\ Len(eng_log) = m_i - 1
       /\ (pc = "main_translating" /\ pc' = "main_loop") =>
              /\ m_i' = m_i + 1
              /\ DOMAIN db' = DOMAIN db
              /\ \A i \in DOMAIN db : i # Len(db) => db'[i] = db[i]]_vars

\* Vocabulary of the claims about the columns set at creation.
CreationFields(row) ==
    <<row.id, row.title, row.content, row.trace_en_with_think, row.created_at>>

\* C25: no step deletes a row or changes the id, title, content,
\* trace_en_with_think or created_at of a row; ids are unique and a row
\* created later has a larger id.
C25_CreationFieldsStable ==
    [][/\ Len(db') >= Len(db)
       /\ \A i \in DOMAIN db : CreationFields(db'[i]) = CreationFields(db[i])
       /\ \A i, j \in DOMAIN db' :
             /\ i # j => db'[i].id # db'[j].id
             /\ db'[i].created_at < db'[j].created_at => db'[i].id < db'[j].id
       /\ \A j \in DOMAIN db' \ DOMAIN db :
             \A i \in DOMAIN db :
                 /\ db[i].id < db'[j].id
                 /\ db[i].created_at < db'[j].created_at]_vars

\* C25 witness: the table holds two rows, the first of them translated after
\* the second was created.
C25_Witness ==
    /\ Len(db) = 2
    /\ db[1].translated_at # NULL
    /\ db[1].translated_at[1] > db[2].created_at
    /\ db[2].created_at > db[1].created_at

\* Line 165 of traceWithThink.py: how the text of a failed generation starts.
GenerationErrorPrefix == <<"Error generating WITH THINK reasoning trace", ":">>

\* C26: the row main has just created has a trace_en_with_think that is not
\* empty and is not the error text of a failed generation call.
C26_TraceIsGenerated ==
    pc = "main_translating" =>
        /\ db[Len(db)].trace_en_with_think = m_trace
        /\ m_trace # <<>>
        /\ ~StartsWith(m_trace, GenerationErrorPrefix)


\* The waits of the translate call so far, against its client calls.
WaitsMatchCalls ==
    /\ t_slept = t_waits * RETRY_DELAY
    /\ t_pc = "call" => t_waits = t_calls
    /\ t_pc \in {"sleep", "return"} => t_waits = t_calls - 1
    /\ GaveUp => t_waits = max_retries - 1
    /\ (t_pc = "return" /\ t_exit = "success") => t_waits = Len(t_hist) - 1

\* C27: for MAX_RETRIES >= 1 the waits of a translate call are one fewer
\* than its client calls once the last call is answered (so MAX_RETRIES - 1
\* when it gives up, k - 1 when call k succeeds) and as many as its client
\* calls while the next call is awaited; each wait lasts RETRY_DELAY, follows
\* a failed call that was not the last and is followed by the next call.
C27_WaitsBetweenCalls ==
    [][max_retries >= 1 =>
          /\ WaitsMatchCalls
          /\ WaitsMatchCalls'
          /\ t_waits' # t_waits =>
                 /\ t_waits' = t_waits + 1
                 /\ t_pc = "sleep" /\ t_pc' = "call"
                 /\ t_calls' = t_calls
                 /\ t_calls < max_retries
                 /\ ClientFailed(LastAnswer)
          /\ (t_pc = "call" /\ t_pc' = "sleep") =>
                 /\ ClientFailed(t_hist'[Len(t_hist')])
                 /\ t_calls' < max_retries
          /\ (t_pc = "call" /\ t_pc' = "return") => t_waits' = t_waits]_vars

\* C27 witness: a call with the default MAX_RETRIES gave up after two waits
\* of RETRY_DELAY.
C27_Witness ==
    /\ max_retries = MAX_RETRIES
    /\ GaveUp
    /\ t_calls = MAX_RETRIES
    /\ t_waits = MAX_RETRIES - 1
    /\ t_slept = (MAX_RETRIES - 1) * RETRY_DELAY

\* The three ways a client call fails.
CallRaised(r) == r.kind \in {"raise", "nonstr"}
LacksField(r) == r.kind = "none"
EmptyOrUnchanged(r) ==
    r.kind = "text" /\ (Strip(r.text) = <<>> \/ Strip(r.text) = t_text)

\* C28: every client call that raised, lacked the text field or gave empty
\* or unchanged text used up one attempt; when it was not call number
\* MAX_RETRIES the translate call went on to wait and call again, and the
\* translate call gave up only with call number MAX_RETRIES.
C28_FailureConsumesOneAttempt ==
    max_retries >= 1 =>
        /\ t_pc = "call" => attempt = t_calls
        /\ t_pc \in {"sleep", "return"} => attempt = t_calls - 1
        /\ \A k \in DOMAIN t_hist :
              (CallRaised(t_hist[k]) \/ LacksField(t_hist[k])
               \/ EmptyOrUnchanged(t_hist[k])) =>
                  IF k < max_retries
                  THEN \/ k < Len(t_hist)
                       \/ t_pc = "sleep"
                       \/ t_pc = "call" /\ attempt = k
                  ELSE k = max_retries /\ k = Len(t_hist) /\ GaveUp
        /\ GaveUp => t_calls = max_retries

\* C28 witness: a response without the field, then empty text, then a raise,
\* each followed by the next attempt until the third gave up.
C28_Witness ==
    /\ max_retries = MAX_RETRIES
    /\ GaveUp
    /\ Len(t_hist) = 3
    /\ LacksField(t_hist[1])
    /\ EmptyOrUnchanged(t_hist[2])
    /\ t_hist[3].kind = "raise"

\* C29: when a translate call gives up, what it returns depends on the last
\* client call only: the exception's text when that call raised (the client,
\* or .strip() of a field that is no string), the 'Failed to get valid
\* translation' message when it lacked the field or gave empty or unchanged
\* text.
C29_ReasonFromLastAttempt ==
    (max_retries >= 1 /\ GaveUp) =>
        /\ LastAnswer.kind = "raise" =>
               t_ret = Some(ExceptionMessage(LastAnswer.err)) /\ t_exit = "exception"
        /\ LastAnswer.kind = "nonstr" =>
               t_ret = Some(ExceptionMessage(NoStripError)) /\ t_exit = "exception"
        /\ (LacksField(LastAnswer) \/ EmptyOrUnchanged(LastAnswer)) =>
               t_ret = Some(ExhaustedMessage) /\ t_exit = "invalid"

\* C29 witness: the first two calls raised, the last one lacked the field,
\* and the call returned the 'Failed to get valid translation' message.
C29_Witness ==
    /\ max_retries = MAX_RETRIES
    /\ GaveUp
    /\ Len(t_hist) = 3
    /\ t_hist[1].kind = "raise"
    /\ t_hist[2].kind = "raise"
    /\ LacksField(t_hist[3])
    /\ t_ret = Some(ExhaustedMessage)

\* C30: every record a batch run handles adds one to exactly one of
\* successful_translations and failed_translations, and at the summary their
\* sum is the length of the work list.
C30_CountersPartitionWork ==
    [][/\ InBatch => successful_translations + failed_translations = w_i - 1
       /\ pc = "batch_done" =>
              successful_translations + failed_translations = Len(work)
       /\ (InBatch /\ w_i' = w_i + 1) =>
              \/ /\ successful_translations' = successful_translations + 1
                 /\ failed_translations' = failed_translations
              \/ /\ successful_translations' = successful_translations
                 /\ failed_translations' = failed_translations + 1
       /\ (InBatch /\ InBatch' /\ w_i' = w_i) =>
              /\ successful_translations' = successful_translations
              /\ failed_translations' = failed_translations]_vars

\* C30 witness: a batch run over two records reached its summary with one
\* record counted as succeeded and one as failed.
C30_Witness ==
    /\ pc = "batch_done"
    /\ Len(work) = 2
    /\ successful_translations = 1
    /\ failed_translations = 1


\* C31: in every state of the table, the completed and the pending count of
\* check_database_status add up to its total, and its pending count is the
\* number of rows get_untranslated_traces returns.
C31_SummaryPartitionsTable ==
    LET status == check_database_status(db)
    IN  /\ status.completed_translations + status.pending_translations
               = status.total_traces
        /\ status.pending_translations = Len(get_untranslated_traces(db))
        /\ (Done(s_call, "status") /\ Done(s_prev, "fetch")) =>
               /\ s_call.status.completed_translations
                      + s_call.status.pending_translations = s_call.status.total_traces
               /\ s_call.status.pending_translations = Len(s_prev.rows)

\* C31 witness: a fetch and then a status summary of a table of three rows,
\* two of them pending.
C31_Witness ==
    /\ Done(s_prev, "fetch")
    /\ Done(s_call, "status")
    /\ Len(s_prev.rows) = 2
    /\ s_call.status.total_traces = 3
    /\ s_call.status.completed_translations = 1

\* C32: a committed call of update_translation_in_database leaves every row
\* with another id as it was and changes nothing of the row with that id but
\* trace_hi_with_think, translation_status and translated_at, which it sets
\* to the text, 'completed' and the time of the call.
C32_UpdateFrame ==
    [][Done(s_call', "update") =>
          /\ DOMAIN db' = DOMAIN db
          /\ \A i \in DOMAIN db :
                IF db[i].id = s_call'.id
                THEN /\ CreationFields(db'[i]) = CreationFields(db[i])
                     /\ TranslationFields(db'[i])
                            = <<s_call'.text, "completed", Some(clock')>>
                ELSE db'[i] = db[i]]_vars

\* C32 witness: the first of two rows was updated while the second, created
\* before the update, is still pending.
C32_Witness ==
    /\ Done(s_call, "update")
    /\ s_call.id = 1
    /\ Len(db) = 2
    /\ db[1].trace_hi_with_think = s_call.text
    /\ db[1].translated_at = Some(clock)
    /\ IsPendingNull(db[2])
    /\ db[2].created_at < clock


\* C33: when every client call, wait and store operation returns, every
\* translate call returns and every batch run that entered its loop reaches
\* its summary; the work list is what the one fetch at the start returned and
\* stays as it is for the whole run.
C33_BatchRunTerminates ==
    /\ (t_pc \in {"call", "sleep"}) ~> (t_pc = "return")
    /\ (pc \in {"batch_loop", "batch_translating"}) ~> (pc = "batch_done")
    /\ [][/\ (pc = "idle" /\ pc' = "batch_loop") =>
                 work' = get_untranslated_traces(db)
          /\ (InBatch /\ InBatch') => work' = work]_vars

\* C33 witness: a batch run over two records reached its summary after the
\* engine used all its attempts on both.
C33_Witness ==
    /\ pc = "batch_done"
    /\ Len(work) = 2
    /\ Len(eng_log) = 2
    /\ eng_log[1].calls = MAX_RETRIES
    /\ eng_log[2].calls = MAX_RETRIES


\* C34: a batch run enters its loop only when the status check ran and found
\* a pending row and the fetch returned a row; when the status check failed,
\* found nothing pending, or the fetch returned nothing, the run is at one of
\* its early returns, where the engine was not called and nothing was
\* written, and from there it only returns.
C34_EarlyExitDoesNothing ==
    [][/\ (pc = "idle" /\ pc' = "batch_loop") =>
              /\ check_database_status(db).pending_translations > 0
              /\ get_untranslated_traces(db) # <<>>
              /\ work' # <<>>
       /\ (pc = "idle" /\ pc' = "batch_no_pending") =>
              check_database_status(db).pending_translations = 0
       /\ (pc = "idle" /\ pc' \in BatchExits \cup {"batch_loop"}) =>
              /\ db' = db
              /\ t_pc' = "idle" /\ t_calls' = 0
              /\ upd_log' = <<>> /\ eng_log' = <<>>
              /\ (check_database_status(db).pending_translations = 0
                  \/ get_untranslated_traces(db) = <<>>) => pc' \in BatchExits
       /\ pc \in BatchExits =>
              /\ pc' = "idle"
              /\ db' = db
              /\ t_pc = "idle" /\ t_pc' = "idle"
              /\ t_calls = 0
              /\ upd_log = <<>> /\ eng_log = <<>> /\ work = <<>>]_vars

\* C34 witness: the run is at the early return taken when the fetch returns
\* nothing, on a table that holds a pending row.
C34_Witness ==
    /\ pc = "batch_no_traces"
    /\ \E i \in DOMAIN db : IsPendingNull(db[i])
    /\ t_calls = 0
    /\ upd_log = <<>>


\* C35: a translate call leaves by the return after the loop ('Maximum
\* retries exceeded') exactly when MAX_RETRIES is 0, and then without a
\* client call or a wait; for MAX_RETRIES >= 1 every call that has returned
\* returned from inside the loop, after at least one client call.
C35_FallThroughUnreachable ==
    /\ (t_exit = "fallthrough") <=> (t_pc = "return" /\ max_retries = 0)
    /\ t_exit = "fallthrough" =>
           /\ t_ret = Some(MaxRetriesExceeded)
           /\ t_calls = 0 /\ t_waits = 0 /\ t_hist = <<>>
    /\ (t_pc = "return" /\ max_retries >= 1) =>
           /\ t_exit \in {"success", "invalid", "exception"}
           /\ t_calls >= 1
           /\ t_ret # Some(MaxRetriesExceeded)

\* C35 witness: with MAX_RETRIES = 0, translate_reasoning_trace returned
\* 'Maximum retries exceeded' without a client call.
C35_Witness ==
    /\ max_retries = 0
    /\ t_pc = "return"
    /\ t_trace # NULL
    /\ t_exit = "fallthrough"
    /\ t_calls = 0

\* C36: whatever a translate call returns, from whichever return statement,
\* is a string of at least one character.
C36_ResultNonEmpty ==
    /\ t_pc = "return" =>
           /\ t_ret # NULL
           /\ Len(t_ret[1]) >= 1
           /\ t_exit = "success" => \E k \in DOMAIN t_ret[1] : t_ret[1][k] \notin WS
    /\ t_pc # "return" => t_ret = NULL

\* C36 witness: the last client call raised an exception with an empty
\* message, and the call returned a give-up message all the same.
C36_Witness ==
    /\ max_retries = MAX_RETRIES
    /\ GaveUp
    /\ LastAnswer = Raise(<<>>)
    /\ t_ret # NULL
    /\ t_ret[1] # <<>>

====
